---------------------------- MODULE Spec2Model ----------------------------
(***************************************************************************)
(* Model of the redux store of src/src/index.ts (one Question or null, a   *)
(* pure reducer, the selectAnswer and validateQuestion thunks, the HTTP    *)
(* question gateway) and of the stub server of src/unnamed/part_000.       *)
(*                                                                         *)
(* JavaScript values are modelled as follows: an object is a record, a     *)
(* missing property reads as Undefined, an array is a sequence (the model  *)
(* keeps JavaScript's 0-based indexes in findIndex and slice), null is the *)
(* record Null, which has no field in common with a Question.              *)
(***************************************************************************)
EXTENDS Integers, Sequences, FiniteSets, TLC

VARIABLES
    state,         \* the store's state: AppState = Question | null
    sel_pc,        \* position of the running selectAnswer thunk
    sel_answer,    \* its `answer` argument (the id is all the thunk reads)
    val_pc,        \* the validateQuestion call: "idle" before the first one,
                   \* "pending" at its await, then how its promise settled
    val_question,  \* its local `question` (the id is all the thunk reads)
    requests,      \* answersIds of the gateway calls awaiting their response
    error          \* what the most recent thunk call threw, "none" if nothing

vars == <<state, sel_pc, sel_answer, val_pc, val_question, requests, error>>

-----------------------------------------------------------------------------
(* Bounds of the exploration *)

\* Longest answers list that setQuestion installs.
MaxAnswers == 2

\* An unknown answerId makes the reducer grow the answers list (see reducer);
\* such a dispatch is explored only while the grown list has at most this length.
MaxListLen == 4

-----------------------------------------------------------------------------
(* Domain values *)

Null == [isNull |-> TRUE]

Undefined == "undefined"

QuestionTypes == {"UCQ", "MCQ"}

\* Ids of the answers: main() builds the first two.
AllAnswerIds == <<"answer1", "answer2", "answer3", "answer4">>

AnswerIds == {AllAnswerIds[i] : i \in 1..MaxAnswers}

\* An id no installed question uses.
UnknownAnswerId == "answer0"

QuestionIds == {"question1", "question2"}

AnswerText(id) == IF id = "answer1" THEN "good" ELSE "baad"

Answer(id, isSelected) ==
    [id |-> id, text |-> AnswerText(id), isCorrect |-> (id = "answer1"),
     isSelected |-> isSelected]

\* The lists of answer ids of the installed questions: the ids are pairwise
\* distinct and, the reducer treating all ids alike, in the order of main().
IdLists == {SubSeq(AllAnswerIds, 1, n) : n \in 0..MaxAnswers}

\* The Question values over these lists of answer ids: any selection flags,
\* either type, validated or not.
QuestionsOver(idLists) ==
    UNION {
        {[id |-> qid, type |-> t, text |-> "How are you?",
          answers |-> [i \in 1..Len(s) |-> Answer(s[i], f[i])],
          isValidated |-> v] :
            qid \in QuestionIds, t \in QuestionTypes, v \in BOOLEAN,
            f \in [1..Len(s) -> BOOLEAN]} :
        s \in idLists}

\* The Question values handed to setQuestion.
Questions == QuestionsOver(IdLists)

-----------------------------------------------------------------------------
(* JavaScript helpers *)

\* obj.id, Undefined when the object has no such property.
IdOf(obj) == IF "id" \in DOMAIN obj THEN obj.id ELSE Undefined

\* Array.prototype.findIndex with the predicate answer.id === answerId: the
\* 0-based index of the first match, -1 when there is none.
FindIndex(answers, answerId) ==
    IF \E i \in 1..Len(answers) : IdOf(answers[i]) = answerId
    THEN (CHOOSE i \in 1..Len(answers) :
              /\ IdOf(answers[i]) = answerId
              /\ \A j \in 1..(i - 1) : IdOf(answers[j]) # answerId) - 1
    ELSE -1

\* A relative index of slice: negative counts from the end, clamped to 0..len.
RelIndex(k, len) ==
    IF k < 0 THEN (IF len + k < 0 THEN 0 ELSE len + k)
    ELSE (IF k > len THEN len ELSE k)

\* Array.prototype.slice(start, end), 0-based, end exclusive.
Slice(arr, start, end) ==
    LET from == RelIndex(start, Len(arr))
        to   == RelIndex(end, Len(arr))
    IN  IF to <= from THEN <<>> ELSE SubSeq(arr, from + 1, to)

\* Array.prototype.slice(start).
SliceFrom(arr, start) == Slice(arr, start, Len(arr))

\* arr[idx], 0-based; the empty object stands for `...undefined` when idx is
\* out of range (spreading undefined adds no property).
SpreadAt(arr, idx) ==
    IF idx >= 0 /\ idx < Len(arr) THEN arr[idx + 1] ELSE <<>>

\* { ...obj, isSelected }
WithIsSelected(obj, isSelected) ==
    [f \in (DOMAIN obj) \cup {"isSelected"} |->
        IF f = "isSelected" THEN isSelected ELSE obj[f]]

\* answer.isSelected as a condition: a missing property is falsy.
IsSelected(answer) == "isSelected" \in DOMAIN answer /\ answer.isSelected

-----------------------------------------------------------------------------
(* Action creators *)

setQuestion(question) == [type |-> "setQuestion", question |-> question]

setAnswerSelected(answer, isSelected) ==
    [type |-> "setAnswerSelected", answerId |-> IdOf(answer), isSelected |-> isSelected]

setQuestionValidated(questionId, isValidated) ==
    [type |-> "setQuestionValidated", questionId |-> questionId,
     isValidated |-> isValidated]

-----------------------------------------------------------------------------
(* Reducer and selectors *)

\* ReplaceAnswer with slice(idx) for slice(idx + 1): the old answer is kept
\* after the new one.
ReplaceAnswer_KeepsOld(s, answerId, isSelected) ==
    LET idx == FindIndex(s.answers, answerId)
    IN  [s EXCEPT !.answers =
            Slice(s.answers, 0, idx)
            \o <<WithIsSelected(SpreadAt(s.answers, idx), isSelected)>>
            \o SliceFrom(s.answers, idx)]

ReplaceAnswer(s, answerId, isSelected) ==
    LET idx == FindIndex(s.answers, answerId)
    IN  [s EXCEPT !.answers =
            Slice(s.answers, 0, idx)
            \o <<WithIsSelected(SpreadAt(s.answers, idx), isSelected)>>
            \o SliceFrom(s.answers, idx + 1)]

\* SetValidated that acts only when action.questionId is the question's id.
SetValidated_IfSameId(s, action) ==
    IF action.questionId = s.id
    THEN [s EXCEPT !.isValidated = action.isValidated]
    ELSE s

\* { ...state, isValidated: action.isValidated }: action.questionId is not read.
SetValidated(s, action) == [s EXCEPT !.isValidated = action.isValidated]

\* reducer with the null test after the setQuestionValidated branch:
\* { ...null, isValidated } is an object with that one property.
reducer_NullCheckLate(s, action) ==
    IF action.type = "setQuestion" THEN action.question
    ELSE IF action.type = "setQuestionValidated"
         THEN (IF s = Null THEN [isValidated |-> action.isValidated]
               ELSE SetValidated(s, action))
    ELSE IF s = Null THEN Null
    ELSE IF action.type = "setAnswerSelected"
         THEN ReplaceAnswer(s, action.answerId, action.isSelected)
    ELSE s

\* reducer whose setQuestion branch carries the isValidated of the previous
\* question over to the new one.
reducer_KeepsValidated(s, action) ==
    IF action.type = "setQuestion"
    THEN (IF s = Null THEN action.question
          ELSE [action.question EXCEPT !.isValidated = s.isValidated])
    ELSE IF s = Null THEN Null
    ELSE IF action.type = "setQuestionValidated"
         THEN SetValidated(s, action)
    ELSE IF action.type = "setAnswerSelected"
         THEN ReplaceAnswer(s, action.answerId, action.isSelected)
    ELSE s

reducer(s, action) ==
    IF action.type = "setQuestion" THEN action.question
    ELSE IF s = Null THEN Null
    ELSE IF action.type = "setQuestionValidated"
         THEN SetValidated(s, action)
    ELSE IF action.type = "setAnswerSelected"
         THEN ReplaceAnswer(s, action.answerId, action.isSelected)
    ELSE s

selectAnswers(s) == s.answers

\* selectSelectedAnswers without its filter.
selectSelectedAnswers_NoFilter(s) == selectAnswers(s)

selectSelectedAnswers(s) == SelectSeq(selectAnswers(s), IsSelected)

\* selectedAnswers.map(({ id }) => id)
MapIds(answers) == [i \in 1..Len(answers) |-> IdOf(answers[i])]

-----------------------------------------------------------------------------
(* The store *)

Init ==
    /\ state = Null
    /\ sel_pc = "idle"
    /\ sel_answer = "none"
    /\ val_pc = "idle"
    /\ val_question = "none"
    /\ requests = <<>>
    /\ error = "none"

\* JavaScript runs one job at a time: nothing else runs between the two
\* dispatches of a selectAnswer call.
NoJobRunning == sel_pc = "idle"

\* Exploration bound on the list growth caused by an unknown answerId.
WithinListBound(s, answerId) ==
    IF s = Null THEN TRUE
    ELSE IF FindIndex(s.answers, answerId) >= 0 THEN TRUE
    ELSE 2 * Len(s.answers) <= MaxListLen

-----------------------------------------------------------------------------
(* Plain actions dispatched to the store *)

DispatchSetQuestion(q) ==
    /\ NoJobRunning
    /\ state' = reducer(state, setQuestion(q))
    /\ UNCHANGED <<sel_pc, sel_answer, val_pc, val_question, requests, error>>

DispatchSetAnswerSelected(answerId, isSelected) ==
    /\ NoJobRunning
    /\ WithinListBound(state, answerId)
    /\ state' = reducer(state, setAnswerSelected(Answer(answerId, FALSE), isSelected))
    /\ UNCHANGED <<sel_pc, sel_answer, val_pc, val_question, requests, error>>

DispatchSetQuestionValidated(questionId, isValidated) ==
    /\ NoJobRunning
    /\ state' = reducer(state, setQuestionValidated(questionId, isValidated))
    /\ UNCHANGED <<sel_pc, sel_answer, val_pc, val_question, requests, error>>

-----------------------------------------------------------------------------
(* selectAnswer thunk *)

\* MustDeselectFirst testing for the other question type.
MustDeselectFirst_WrongType(s) ==
    s.type = "MCQ" /\ Len(selectSelectedAnswers(s)) > 0

\* MustDeselectFirst without the test of the question type.
MustDeselectFirst_AnyType(s) == Len(selectSelectedAnswers(s)) > 0

\* The `question.type === UCQ && firstSelectedAnswer` test.
MustDeselectFirst(s) == s.type = "UCQ" /\ Len(selectSelectedAnswers(s)) > 0

\* dispatch(setAnswerSelected(firstSelectedAnswer, false))
DeselectFirst(s) ==
    reducer(s, setAnswerSelected(selectSelectedAnswers(s)[1], FALSE))

\* SelectTarget toggling the flag of the answer instead of setting it.
SelectTarget_Toggle(s, answer) ==
    LET idx == FindIndex(s.answers, IdOf(answer))
    IN  reducer(s, setAnswerSelected(
            answer, IF idx >= 0 THEN ~IsSelected(s.answers[idx + 1]) ELSE TRUE))

\* dispatch(setAnswerSelected(answer, true))
SelectTarget(s, answer) == reducer(s, setAnswerSelected(answer, TRUE))

\* The state a whole selectAnswer(answer) call leaves, from a non-null state:
\* no other job runs between its dispatches.
selectAnswer(s, answer) ==
    SelectTarget(IF MustDeselectFirst(s) THEN DeselectFirst(s) ELSE s, answer)

\* selectQuestion throws on the null state.
SelectAnswerThrows(answerId) ==
    /\ NoJobRunning
    /\ state = Null
    /\ error' = "question is null"
    /\ UNCHANGED <<state, sel_pc, sel_answer, val_pc, val_question, requests>>

\* First dispatch of the UCQ branch: the first selected answer is deselected.
SelectAnswerDeselect(answerId) ==
    /\ NoJobRunning
    /\ state # Null
    /\ WithinListBound(state, answerId)
    /\ MustDeselectFirst(state)
    /\ state' = DeselectFirst(state)
    /\ sel_pc' = "deselected"
    /\ sel_answer' = answerId
    /\ error' = "none"
    /\ UNCHANGED <<val_pc, val_question, requests>>

\* The closing dispatch after a deselection.
SelectAnswerSelect ==
    /\ sel_pc = "deselected"
    /\ state' = SelectTarget(state, Answer(sel_answer, FALSE))
    /\ sel_pc' = "idle"
    /\ sel_answer' = "none"
    /\ UNCHANGED <<val_pc, val_question, requests, error>>

\* The thunk when nothing has to be deselected: its only dispatch.
SelectAnswerOnly(answerId) ==
    /\ NoJobRunning
    /\ state # Null
    /\ WithinListBound(state, answerId)
    /\ ~MustDeselectFirst(state)
    /\ state' = SelectTarget(state, Answer(answerId, FALSE))
    /\ error' = "none"
    /\ UNCHANGED <<sel_pc, sel_answer, val_pc, val_question, requests>>

-----------------------------------------------------------------------------
(* validateQuestion thunk, gateway and server *)

\* One validateQuestion call is followed at a time.
NoCallPending == val_pc # "pending"

\* ValidateThrows with the null test after the call of the gateway: an empty
\* list of ids is posted before the call fails.
ValidateThrows_PostsFirst ==
    /\ NoJobRunning
    /\ NoCallPending
    /\ state = Null
    /\ requests' = Append(requests, <<>>)
    /\ val_pc' = "rejected"
    /\ error' = "question is null"
    /\ UNCHANGED <<state, sel_pc, sel_answer, val_question>>

\* selectQuestion throws on the null state: the promise is rejected at once,
\* before the gateway is called.
ValidateThrows ==
    /\ NoJobRunning
    /\ NoCallPending
    /\ state = Null
    /\ val_pc' = "rejected"
    /\ error' = "question is null"
    /\ UNCHANGED <<state, sel_pc, sel_answer, val_question, requests>>

\* Up to the await: the locals are read and the gateway posts the answer ids.
ValidateStart ==
    /\ NoJobRunning
    /\ NoCallPending
    /\ state # Null
    /\ val_question' = state.id
    /\ requests' = Append(requests, MapIds(selectSelectedAnswers(state)))
    /\ val_pc' = "pending"
    /\ error' = "none"
    /\ UNCHANGED <<state, sel_pc, sel_answer>>

\* Status the stub server answers with.
StubStatus == 201

\* part_000: every POST /validate-question is answered 201 whatever its body.
StubServer(body) == StubStatus

\* Statuses a server other than the stub may answer with.
OtherStatuses == {200, 404, 500}

\* ResponseOk testing for the status 200 alone.
ResponseOk_Only200(status) == status = 200

\* Response.ok: the status is in the range 200-299.
ResponseOk(status) == status >= 200 /\ status <= 299

\* HttpQuestionGateway.validate, given the server's status: response.ok.
GatewayValidate(status) == ResponseOk(status)

\* ValidateFulfil without its dispatch.
ValidateFulfil_NoDispatch ==
    /\ val_pc' = "fulfilled"
    /\ val_question' = "none"
    /\ requests' = Tail(requests)
    /\ error' = "none"
    /\ UNCHANGED <<state, sel_pc, sel_answer>>

\* ValidateFulfil dispatching only while the question of the call is current.
ValidateFulfil_IfStillCurrent ==
    /\ state' = IF state.id = val_question
                THEN reducer(state, setQuestionValidated(val_question, TRUE))
                ELSE state
    /\ val_pc' = "fulfilled"
    /\ val_question' = "none"
    /\ requests' = Tail(requests)
    /\ error' = "none"
    /\ UNCHANGED <<sel_pc, sel_answer>>

\* After the await, on a truthy result: the question is marked validated.
ValidateFulfil ==
    /\ state' = reducer(state, setQuestionValidated(val_question, TRUE))
    /\ val_pc' = "fulfilled"
    /\ val_question' = "none"
    /\ requests' = Tail(requests)
    /\ error' = "none"
    /\ UNCHANGED <<sel_pc, sel_answer>>

\* ValidateReject with the dispatch made before the throw.
ValidateReject_DispatchesFirst ==
    /\ state' = reducer(state, setQuestionValidated(val_question, TRUE))
    /\ val_pc' = "rejected"
    /\ val_question' = "none"
    /\ requests' = Tail(requests)
    /\ error' = "response not ok"
    /\ UNCHANGED <<sel_pc, sel_answer>>

\* After the await, on a falsy result: the thunk throws.
ValidateReject ==
    /\ val_pc' = "rejected"
    /\ val_question' = "none"
    /\ requests' = Tail(requests)
    /\ error' = "response not ok"
    /\ UNCHANGED <<state, sel_pc, sel_answer>>

\* The response arrives and the thunk resumes after its await.
ValidateResume(status) ==
    /\ NoJobRunning
    /\ val_pc = "pending"
    /\ requests # <<>>
    /\ IF GatewayValidate(status) THEN ValidateFulfil ELSE ValidateReject

\* The stub server answers the pending request.
StubServerAnswers == ValidateResume(StubServer(Head(requests)))

\* Another server listening on the endpoint answers it.
OtherServerAnswers == \E status \in OtherStatuses : ValidateResume(status)

-----------------------------------------------------------------------------

Next ==
    \/ \E q \in Questions : DispatchSetQuestion(q)
    \/ \E id \in AnswerIds \cup {UnknownAnswerId}, b \in BOOLEAN :
           DispatchSetAnswerSelected(id, b)
    \/ \E qid \in QuestionIds, b \in BOOLEAN : DispatchSetQuestionValidated(qid, b)
    \/ \E id \in AnswerIds \cup {UnknownAnswerId} : SelectAnswerThrows(id)
    \/ \E id \in AnswerIds \cup {UnknownAnswerId} : SelectAnswerDeselect(id)
    \/ SelectAnswerSelect
    \/ \E id \in AnswerIds \cup {UnknownAnswerId} : SelectAnswerOnly(id)
    \/ ValidateThrows
    \/ ValidateStart
    \/ StubServerAnswers
    \/ OtherServerAnswers

Spec == Init /\ [][Next]_vars

-----------------------------------------------------------------------------
(* selectAnswer on any question *)

\* Lists of answer ids up to one answer longer than those of Questions.
LongerIdLists == {SubSeq(AllAnswerIds, 1, n) : n \in 0..(MaxAnswers + 1)}

LongerAnswerIds == {AllAnswerIds[i] : i \in 1..(MaxAnswers + 1)}

\* The store right after a setQuestion: any question over LongerIdLists.
InitAnyQuestion ==
    /\ state \in QuestionsOver(LongerIdLists)
    /\ sel_pc = "idle"
    /\ sel_answer = "none"
    /\ val_pc = "idle"
    /\ val_question = "none"
    /\ requests = <<>>
    /\ error = "none"

\* Calls of selectAnswer and direct dispatches of setAnswerSelected, for the
\* ids of the question and for an unknown one.
NextSelectAnswer ==
    \/ \E id \in LongerAnswerIds \cup {UnknownAnswerId} : SelectAnswerDeselect(id)
    \/ SelectAnswerSelect
    \/ \E id \in LongerAnswerIds \cup {UnknownAnswerId} : SelectAnswerOnly(id)
    \/ \E id \in LongerAnswerIds \cup {UnknownAnswerId}, b \in BOOLEAN :
           DispatchSetAnswerSelected(id, b)

SpecSelectAnswer == InitAnyQuestion /\ [][NextSelectAnswer]_vars

-----------------------------------------------------------------------------
(* Vocabulary of the properties *)

IsUCQ(s) == IF s = Null THEN FALSE ELSE s.type = "UCQ"

IsMCQ(s) == IF s = Null THEN FALSE ELSE s.type = "MCQ"

\* 1-based positions of the selected answers of question q.
SelectedAt(q) == {i \in 1..Len(q.answers) : IsSelected(q.answers[i])}

\* Number of answers of question q that are selected.
SelectedCount(q) == Cardinality(SelectedAt(q))

\* Whether the current question has an answer with this id.
HasAnswer(s, answerId) ==
    IF s = Null THEN FALSE ELSE FindIndex(s.answers, answerId) >= 0

\* 1-based position of the first answer of q with this id (q has one).
PositionOf(q, answerId) == FindIndex(q.answers, answerId) + 1

\* The answers of q have pairwise distinct ids.
DistinctIds(q) ==
    \A i, j \in 1..Len(q.answers) :
        i # j => IdOf(q.answers[i]) # IdOf(q.answers[j])

-----------------------------------------------------------------------------
(* C1 *)

\* C1 as stated: in every reachable state, whatever actions and thunks
\* produced it, a UCQ current question has at most one selected answer.
C1_AnyHistory == IsUCQ(state) => SelectedCount(state) <= 1

\* The answers have distinct ids and, when the question is UCQ, at most one
\* is selected: none between the two dispatches of a selectAnswer call.
SingleChoice(s, pc) ==
    IF s = Null THEN TRUE
    ELSE /\ DistinctIds(s)
         /\ s.type = "UCQ" =>
                SelectedCount(s) <= (IF pc = "deselected" THEN 0 ELSE 1)

\* A step of a use case: setQuestion of a question that is SingleChoice,
\* setQuestionValidated, a dispatch of selectAnswer for an answer of the
\* current question, a step of validateQuestion.
UseCaseStep ==
    \/ (state' \in Questions /\ SingleChoice(state', "idle")
            /\ DispatchSetQuestion(state'))
    \/ \E qid \in QuestionIds, b \in BOOLEAN : DispatchSetQuestionValidated(qid, b)
    \/ \E id \in AnswerIds :
           HasAnswer(state, id) /\ (SelectAnswerDeselect(id) \/ SelectAnswerOnly(id))
    \/ (HasAnswer(state, sel_answer) /\ SelectAnswerSelect)
    \/ ValidateStart
    \/ StubServerAnswers
    \/ OtherServerAnswers

\* C1, amended: a state in which the answers have distinct ids and a UCQ
\* question has at most one selected answer (none between the two dispatches
\* of selectAnswer) is followed by such a state after every step of a use
\* case: setQuestion of such a question, setQuestionValidated, either dispatch
\* of selectAnswer for an answer of the current question, validateQuestion.
C1_UseCasesKeepSingleChoice ==
    [][(SingleChoice(state, sel_pc) /\ UseCaseStep)
            => SingleChoice(state', sel_pc')]_vars

\* Between the two dispatches of selectAnswer on a UCQ question: the selected
\* answer is deselected and the target, an answer of the question, not yet
\* selected.
C1_Witness ==
    /\ IsUCQ(state)
    /\ sel_pc = "deselected"
    /\ SingleChoice(state, sel_pc)
    /\ HasAnswer(state, sel_answer)
    /\ Len(state.answers) = 2

-----------------------------------------------------------------------------
(* C2 *)

\* The first dispatch of selectAnswer(b) on a UCQ question whose only selected
\* answer is at position a, b being the id of another answer of the question.
C2_Case(a, b) ==
    /\ IsUCQ(state)
    /\ SelectedAt(state) = {a}
    /\ HasAnswer(state, b)
    /\ PositionOf(state, b) # a
    /\ SelectAnswerDeselect(b)

\* C2: on a UCQ question with exactly one selected answer a, selectAnswer(b)
\* for another answer b first deselects a (b not yet selected), then selects
\* b, which ends as the only selected answer.
C2_SecondSelectionReplacesFirst ==
    [][\A b \in AnswerIds :
        IF IsUCQ(state)
        THEN \A a \in 1..Len(state.answers) :
                C2_Case(a, b) =>
                    /\ SelectedAt(state') = {}
                    /\ SelectedAt(SelectTarget(state', Answer(b, FALSE)))
                           = {PositionOf(state, b)}
        ELSE TRUE]_vars

-----------------------------------------------------------------------------
(* C3 *)

\* A step of selectAnswer(b) on the current question.
SelectAnswerStep(b) ==
    \/ SelectAnswerOnly(b)
    \/ SelectAnswerDeselect(b)
    \/ (sel_answer = b /\ SelectAnswerSelect)

\* C3: on an MCQ question, every step of selectAnswer(b), b an answer of the
\* question, keeps every selected answer selected and leaves b selected, the
\* list keeping its length.
C3_McqSelectionIsAdditive ==
    [][\A b \in AnswerIds :
        (IsMCQ(state) /\ HasAnswer(state, b) /\ SelectAnswerStep(b)) =>
            /\ IsMCQ(state')
            /\ Len(state'.answers) = Len(state.answers)
            /\ SelectedAt(state') = SelectedAt(state) \cup {PositionOf(state, b)}
            /\ sel_pc' = "idle"]_vars

\* An MCQ question with every one of its two answers selected after calls of
\* selectAnswer.
C3_Witness ==
    /\ IsMCQ(state)
    /\ Len(state.answers) = 2
    /\ SelectedAt(state) = {1, 2}
    /\ sel_pc = "idle"
    /\ error = "none"

-----------------------------------------------------------------------------
(* C4 *)

\* C4: a setAnswerSelected action whose answerId matches no answer of the
\* current question leaves the state as it was.
C4_UnknownIdIsIgnored ==
    [][\A id \in AnswerIds \cup {UnknownAnswerId}, b \in BOOLEAN :
        (state # Null /\ ~HasAnswer(state, id) /\ DispatchSetAnswerSelected(id, b))
            => state' = state]_vars

-----------------------------------------------------------------------------
(* C5 *)

\* Question t is question s with the isSelected field of the answer at
\* position pos set to b, and nothing else changed.
OnlyIsSelectedChanged(s, t, pos, b) ==
    /\ t # Null
    /\ DOMAIN t = DOMAIN s
    /\ t.id = s.id
    /\ t.type = s.type
    /\ t.text = s.text
    /\ t.isValidated = s.isValidated
    /\ Len(t.answers) = Len(s.answers)
    /\ \A i \in 1..Len(s.answers) :
          IF i = pos
          THEN /\ DOMAIN t.answers[i] = DOMAIN s.answers[i]
               /\ t.answers[i].isSelected = b
               /\ \A f \in DOMAIN s.answers[i] \ {"isSelected"} :
                      t.answers[i][f] = s.answers[i][f]
          ELSE t.answers[i] = s.answers[i]

\* C5: in every reachable non-null state, the reducer applied to a
\* setAnswerSelected(answerId, isSelected) whose answerId matches an answer
\* of the current question yields the state with the isSelected field of the
\* matching answer set to isSelected, and nothing else changed.
C5_OnlyMatchingAnswerChanges ==
    \A id \in AnswerIds, b \in BOOLEAN :
        HasAnswer(state, id) =>
            OnlyIsSelectedChanged(
                state, reducer(state, setAnswerSelected(Answer(id, FALSE), b)),
                PositionOf(state, id), b)

\* The list holds two answers of the same id (an earlier dispatch had an
\* unknown id) and only the first, the matching one, is selected.
C5_Witness ==
    /\ state # Null
    /\ sel_pc = "idle"
    /\ \E i, j \in 1..Len(state.answers) :
          /\ i < j
          /\ IdOf(state.answers[i]) = "answer1"
          /\ IdOf(state.answers[j]) = "answer1"
          /\ IsSelected(state.answers[i])
          /\ ~IsSelected(state.answers[j])

-----------------------------------------------------------------------------
(* C6 *)

\* Question t is question s with isValidated set to b, and nothing else
\* changed.
OnlyIsValidatedChanged(s, t, b) ==
    /\ t # Null
    /\ DOMAIN t = DOMAIN s
    /\ t.isValidated = b
    /\ t.answers = s.answers
    /\ t.id = s.id
    /\ t.type = s.type
    /\ t.text = s.text

\* C6: in every reachable non-null state, the reducer applied to a
\* setQuestionValidated(questionId, isValidated), whether or not questionId
\* is the current question's id, yields the state with isValidated set to
\* the action's value, and nothing else changed.
C6_OnlyIsValidatedChanges ==
    \A qid \in QuestionIds, b \in BOOLEAN :
        state # Null =>
            OnlyIsValidatedChanged(
                state, reducer(state, setQuestionValidated(qid, b)), b)

\* A validateQuestion call awaits its answer while the store holds another,
\* not validated question: the action about to be dispatched names a
\* question that is not the current one.
C6_Witness ==
    /\ state # Null
    /\ val_pc = "pending"
    /\ val_question # state.id
    /\ ~state.isValidated
    /\ SelectedCount(state) >= 1

-----------------------------------------------------------------------------
(* C7 *)

\* The statuses a server may answer with.
Statuses == {StubStatus} \cup OtherStatuses

\* The gateway resolves to a truthy result and the thunk resumes.
ResumesTruthy ==
    \E status \in Statuses : GatewayValidate(status) /\ ValidateResume(status)

\* The gateway resolves to a falsy result and the thunk resumes.
ResumesFalsy ==
    \E status \in Statuses : ~GatewayValidate(status) /\ ValidateResume(status)

\* C7: when the gateway resolves to a truthy result the call completes without
\* error, the current question having isValidated = true at that moment; and
\* a pending call completes once the gateway has resolved.
C7_TruthyResultValidates ==
    /\ [][(val_pc = "pending" /\ ResumesTruthy) =>
            /\ val_pc' = "fulfilled"
            /\ error' = "none"
            /\ state' # Null
            /\ state'.isValidated]_vars
    /\ (val_pc = "pending") ~> (val_pc \in {"fulfilled", "rejected"})

\* A call has completed without error on a question with a selected answer,
\* which is validated.
C7_Witness ==
    /\ val_pc = "fulfilled"
    /\ error = "none"
    /\ state # Null
    /\ state.isValidated
    /\ SelectedCount(state) >= 1

-----------------------------------------------------------------------------
(* C8 *)

\* C8: when the gateway resolves to a falsy result the call fails with
\* 'response not ok', nothing is dispatched and the state is what it was.
C8_FalsyResultThrows ==
    [][(val_pc = "pending" /\ ResumesFalsy) =>
            /\ val_pc' = "rejected"
            /\ error' = "response not ok"
            /\ state' = state]_vars

\* A call has failed with 'response not ok' on a question with a selected
\* answer, which is not validated.
C8_Witness ==
    /\ val_pc = "rejected"
    /\ error = "response not ok"
    /\ state # Null
    /\ ~state.isValidated
    /\ SelectedCount(state) >= 1

-----------------------------------------------------------------------------
(* C9 *)

RECURSIVE SelectedIdsInOrder(_)
\* The ids of the selected answers of a list, in the order of the list.
SelectedIdsInOrder(answers) ==
    IF answers = <<>> THEN <<>>
    ELSE IF IsSelected(Head(answers))
         THEN <<IdOf(Head(answers))>> \o SelectedIdsInOrder(Tail(answers))
         ELSE SelectedIdsInOrder(Tail(answers))

\* C9: a validateQuestion call on a non-null state calls the gateway once,
\* with the ids of the answers selected at that moment in the order of the
\* answers list; no other step calls the gateway, and nothing is sent again
\* when the call settles.
C9_GatewayCalledOnceWithSelectedIds ==
    [][/\ (state # Null /\ val_pc # "pending" /\ val_pc' = "pending")
            => requests' = <<SelectedIdsInOrder(state.answers)>>
       /\ (val_pc = "pending" /\ val_pc' # "pending") => requests' = <<>>
       /\ ((val_pc = "pending") = (val_pc' = "pending")) => requests' = requests
      ]_vars

\* The gateway has been called with the two selected answers of the question,
\* in their order.
C9_Witness ==
    /\ val_pc = "pending"
    /\ requests = << <<"answer1", "answer2">> >>

-----------------------------------------------------------------------------
(* C10 *)

\* C10: while the state is null it stays null under every action but
\* setQuestion, which alone makes it non-null.
C10_NullStaysNull ==
    [][state = Null =>
        \/ state' = Null
        \/ (state' \in Questions /\ DispatchSetQuestion(state'))]_vars

\* The state is still null after a validateQuestion call, which was rejected.
C10_Witness ==
    /\ state = Null
    /\ val_pc = "rejected"
    /\ error = "question is null"

-----------------------------------------------------------------------------
(* C11 *)

\* C11: in every reachable state (null, another question, a validated
\* question, a question with selected answers, a list grown by an unknown
\* id), the reducer applied to setQuestion(q) yields exactly q: q's own
\* isValidated and isSelected values, nothing of the previous state.
C11_SetQuestionReplacesState ==
    \A q \in Questions : reducer(state, setQuestion(q)) = q

\* A question was installed while a validateQuestion call for a question of
\* another id was pending: it is one of the installable questions, validated
\* from the start, and its selected answer is not the one that was sent.
C11_Witness ==
    /\ state \in Questions
    /\ val_pc = "pending"
    /\ val_question # state.id
    /\ requests = << <<"answer1">> >>
    /\ state.isValidated
    /\ SelectedAt(state) = {2}

-----------------------------------------------------------------------------
(* C12 *)

\* C12: whatever body the pending request carries, the stub server answers
\* it with a status for which the gateway's validate reports success, so
\* that the validateQuestion call is fulfilled, the question being marked
\* validated, and does not fail with 'response not ok'.
C12_StubAlwaysValidates ==
    [][(val_pc = "pending" /\ StubServerAnswers) =>
            /\ StubServer(Head(requests)) = StubStatus
            /\ GatewayValidate(StubServer(Head(requests)))
            /\ val_pc' = "fulfilled"
            /\ error' # "response not ok"
            /\ state' # Null
            /\ state'.isValidated]_vars

\* A call has been fulfilled on a question none of whose two answers is
\* selected: the question is validated.
C12_Witness ==
    /\ val_pc = "fulfilled"
    /\ error = "none"
    /\ state # Null
    /\ state.isValidated
    /\ Len(state.answers) = 2
    /\ SelectedCount(state) = 0

-----------------------------------------------------------------------------
(* C13 *)

\* C13 as stated: when a call succeeds while the current question is not the
\* one that was current when the call started (another id), the current
\* question is not marked validated by it.
C13_OnlyStartingQuestionValidated ==
    [][(val_pc = "pending" /\ ResumesTruthy /\ state.id # val_question)
            => state'.isValidated = state.isValidated]_vars

\* C13, amended: when a call succeeds, the question that is current at that
\* moment is marked validated and nothing else of it changes, whatever its
\* id: it has the id of the question that was current when the call started
\* unless a setQuestion installed a question of another id meanwhile, and
\* then the newly installed question is the one marked validated.
C13_CurrentQuestionValidated ==
    [][(val_pc = "pending" /\ ResumesTruthy) =>
            /\ OnlyIsValidatedChanged(state, state', TRUE)
            /\ (state.id # val_question =>
                    (state'.isValidated /\ state'.id # val_question))]_vars

\* While a call that sent two ids is pending, a question of another id, not
\* validated, with one answer has been installed.
C13_Witness ==
    /\ state \in Questions
    /\ val_pc = "pending"
    /\ val_question # state.id
    /\ ~state.isValidated
    /\ Len(state.answers) = 1
    /\ requests = << <<"answer1", "answer2">> >>

-----------------------------------------------------------------------------
(* C14 *)

\* The ids of the selected answers of question q.
SelectedIdSet(q) == {IdOf(q.answers[i]) : i \in SelectedAt(q)}

\* The ids of the request the gateway is waiting on.
SentIdSet == {Head(requests)[i] : i \in 1..Len(Head(requests))}

\* C14: at the moment a call marks the question validated, the set of the
\* ids of the selected answers in the store is the set of the ids that the
\* call sent to the gateway.
C14_ValidatedSelectionIsSentSelection ==
    [][(val_pc = "pending" /\ ResumesTruthy) =>
            SelectedIdSet(state') = SentIdSet]_vars

-----------------------------------------------------------------------------
(* C15 *)

\* A call of selectAnswer or of validateQuestion, up to its first dispatch or
\* its await.
ThunkCall ==
    \/ \E id \in AnswerIds \cup {UnknownAnswerId} :
           SelectAnswerThrows(id) \/ SelectAnswerDeselect(id) \/ SelectAnswerOnly(id)
    \/ ValidateThrows
    \/ ValidateStart

\* C15: on the null state a call of selectAnswer or of validateQuestion
\* fails with 'question is null': the state stays null, no second dispatch
\* is left to make, the gateway is not called and no call is left pending.
C15_NullStateThunksThrow ==
    [][IF state = Null
       THEN ThunkCall =>
                /\ state' = Null
                /\ error' = "question is null"
                /\ sel_pc' = "idle"
                /\ val_pc' # "pending"
                /\ requests = <<>>
                /\ requests' = <<>>
       ELSE TRUE]_vars

\* selectAnswer has failed on the null state, no validateQuestion call having
\* been made.
C15_Witness ==
    /\ state = Null
    /\ error = "question is null"
    /\ val_pc = "idle"
    /\ requests = <<>>

-----------------------------------------------------------------------------
(* C16 *)

\* selectAnswer(a) called twice in a row from state s leaves the state that
\* one call leaves.
TwiceIsOnce(s, a) ==
    selectAnswer(selectAnswer(s, Answer(a, FALSE)), Answer(a, FALSE))
        = selectAnswer(s, Answer(a, FALSE))

\* C16 as stated: in every non-null state in which a call can start, UCQ or
\* MCQ, and for every answer a of the current question, selectAnswer(a)
\* called twice leaves the state that one call leaves.
C16_IdempotentInEveryState ==
    \A a \in LongerAnswerIds :
        (sel_pc = "idle" /\ HasAnswer(state, a)) => TwiceIsOnce(state, a)

\* C16, amended: in every state in which the question is MCQ, or UCQ with at
\* most one selected answer, and for every answer a of the current question,
\* selectAnswer(a) called twice leaves the state that one call leaves, in
\* which the first answer of id a is selected.
C16_IdempotentOnSingleChoice ==
    \A a \in LongerAnswerIds :
        (/\ sel_pc = "idle"
         /\ HasAnswer(state, a)
         /\ (IsMCQ(state) \/ SelectedCount(state) <= 1))
            => /\ TwiceIsOnce(state, a)
               /\ PositionOf(state, a)
                      \in SelectedAt(selectAnswer(state, Answer(a, FALSE)))

\* Between the two dispatches of selectAnswer(answer1) on a UCQ question of
\* three answers: no answer is selected, answer1 is about to be.
C16_Witness ==
    /\ IsUCQ(state)
    /\ sel_pc = "deselected"
    /\ sel_answer = "answer1"
    /\ Len(state.answers) = MaxAnswers + 1
    /\ DistinctIds(state)
    /\ SelectedCount(state) = 0

-----------------------------------------------------------------------------
(* C17 *)

\* Question t has the id, type and text of question s, as many answers, and
\* the same answer ids in the same order.
SameQuestionFrame(s, t) ==
    /\ t # Null
    /\ t.id = s.id
    /\ t.type = s.type
    /\ t.text = s.text
    /\ Len(t.answers) = Len(s.answers)
    /\ \A i \in 1..Len(s.answers) : IdOf(t.answers[i]) = IdOf(s.answers[i])

\* A step of validateQuestion on a non-null state.
ValidateStep == ValidateStart \/ StubServerAnswers \/ OtherServerAnswers

\* C17: every dispatch of a selectAnswer call leaves isValidated as it was,
\* every step of a validateQuestion call leaves the isSelected of every
\* answer as it was, and both leave the question's id, type and text, the
\* number of answers and the order of the answer ids as they were: a step
\* that changes one of those is a setQuestion.
C17_ThunksTouchDisjointParts ==
    [][IF state = Null THEN TRUE
       ELSE /\ \A id \in AnswerIds \cup {UnknownAnswerId} :
                  SelectAnswerStep(id) =>
                      /\ SameQuestionFrame(state, state')
                      /\ state'.isValidated = state.isValidated
            /\ ValidateStep =>
                  /\ SameQuestionFrame(state, state')
                  /\ \A i \in 1..Len(state.answers) :
                         IsSelected(state'.answers[i]) = IsSelected(state.answers[i])
            /\ \/ SameQuestionFrame(state, state')
               \/ (state' \in Questions /\ DispatchSetQuestion(state'))
      ]_vars

-----------------------------------------------------------------------------
(* Scheduling *)

\* A response that has arrived is handled once the running job has ended, and
\* the second dispatch of selectAnswer follows the first.
Fairness ==
    /\ SF_vars(StubServerAnswers \/ OtherServerAnswers)
    /\ WF_vars(SelectAnswerSelect)

FairSpec == Spec /\ Fairness

=============================================================================
